---- MODULE Spec2Model ----
(***************************************************************************)
(* Single-table key modelling and repository layer of the expense tracker. *)
(*                                                                         *)
(* The table is a set of items, at most one per primary key (PK, SK).      *)
(* Keys are the strings the Go code builds with fmt.Sprintf; dates are     *)
(* time.Time values kept as (day since 1970-01-01, second of day, zone     *)
(* offset), so that Unix() and Format("2006-01") are computed, not assumed.*)
(* The wall-clock fields created_at / updated_at are not part of the model.*)
(***************************************************************************)
EXTENDS Integers, Sequences, FiniteSets, TLC

VARIABLES
    store,   \* the table: a set of items, one per primary key
    pc,      \* per request handler: "idle", or the operation it is inside
    req,     \* per request handler: the locals of the operation in progress
    last,    \* the outcome of the operation that finished last
    race     \* the outcomes of the last two Updates that raced on one record

vars == <<store, pc, req, last, race>>

(***************************************************************************)
(* Strings and numbers                                                     *)
(***************************************************************************)

Lower == <<"a","b","c","d","e","f","g","h","i","j","k","l","m",
           "n","o","p","q","r","s","t","u","v","w","x","y","z">>

Upper == <<"A","B","C","D","E","F","G","H","I","J","K","L","M",
           "N","O","P","Q","R","S","T","U","V","W","X","Y","Z">>

\* unicode.ToUpper on one character (ASCII letters; anything else is kept).
UpperChar(c) ==
    IF \E i \in 1..Len(Lower) : Lower[i] = c
    THEN Upper[CHOOSE i \in 1..Len(Lower) : Lower[i] = c]
    ELSE c

\* strings.ToUpper
RECURSIVE ToUpper(_)
ToUpper(s) ==
    IF s = "" THEN ""
    ELSE UpperChar(SubSeq(s, 1, 1)) \o ToUpper(SubSeq(s, 2, Len(s)))

\* strings.HasPrefix / DynamoDB begins_with
HasPrefix(s, prefix) ==
    /\ Len(s) >= Len(prefix)
    /\ SubSeq(s, 1, Len(prefix)) = prefix

Digits == <<"0","1","2","3","4","5","6","7","8","9">>

\* decimal text of n >= 0 (the %d verb)
RECURSIVE Itoa(_)
Itoa(n) ==
    IF n < 10 THEN Digits[n + 1]
    ELSE Itoa(n \div 10) \o Digits[(n % 10) + 1]

\* decimal text of n >= 0, left-padded with zeros to at least w digits
RECURSIVE Pad(_, _)
Pad(n, w) ==
    IF Len(Itoa(n)) >= w THEN Itoa(n) ELSE "0" \o Pad(n, w - 1)

\* value of a decimal text (strconv.Atoi on digits only)
RECURSIVE Atoi(_)
Atoi(s) ==
    IF s = "" THEN 0
    ELSE Atoi(SubSeq(s, 1, Len(s) - 1)) * 10
         + ((CHOOSE i \in 1..10 : Digits[i] = SubSeq(s, Len(s), Len(s))) - 1)

\* The characters keys are made of, in byte order.
Alphabet == <<"#", "-">> \o Digits \o Upper \o Lower

Ord(c) == CHOOSE i \in 1..Len(Alphabet) : Alphabet[i] = c

\* Byte-wise order of strings, the order of DynamoDB sort keys.
RECURSIVE StrLess(_, _)
StrLess(a, b) ==
    IF b = "" THEN FALSE
    ELSE IF a = "" THEN TRUE
    ELSE IF SubSeq(a, 1, 1) = SubSeq(b, 1, 1)
         THEN StrLess(SubSeq(a, 2, Len(a)), SubSeq(b, 2, Len(b)))
         ELSE Ord(SubSeq(a, 1, 1)) < Ord(SubSeq(b, 1, 1))

(***************************************************************************)
(* time.Time                                                               *)
(***************************************************************************)

\* A date is [day, sec, off]: the instant day*86400+sec seconds after the
\* epoch, shown in the zone off seconds east of UTC.
MkDate(day, sec, off) == [day |-> day, sec |-> sec, off |-> off]

\* The zero time.Time: January 1, year 1, 00:00:00 UTC.
ZeroDate == MkDate(-719162, 0, 0)

\* time.Time.IsZero
IsZero(d) == d.day = ZeroDate.day /\ d.sec = 0

\* fmt.Sprintf("%d", t.Unix()).  The value is day*86400+sec; it is written
\* as 100*hi + lo so that the year-1 instant stays inside machine integers.
UnixText(d) ==
    IF d.day >= 0
    THEN LET hi == d.day * 864 + d.sec \div 100
             lo == d.sec % 100
         IN  IF hi = 0 THEN Itoa(lo) ELSE Itoa(hi) \o Pad(lo, 2)
    ELSE LET up == (d.sec + 99) \div 100
             hi == (0 - d.day) * 864 - up
             lo == up * 100 - d.sec
         IN  "-" \o (IF hi = 0 THEN Itoa(lo) ELSE Itoa(hi) \o Pad(lo, 2))

\* The calendar day of the date in its own zone.
LocalDay(d) == d.day + ((d.sec + d.off) \div 86400)

\* Year and month of a day count (proleptic Gregorian calendar).
CivilYearMonth(z0) ==
    LET z   == z0 + 719468
        era == z \div 146097
        doe == z - era * 146097
        yoe == (doe - doe \div 1460 + doe \div 36524 - doe \div 146096) \div 365
        doy == doe - (365 * yoe + yoe \div 4 - yoe \div 100)
        mp  == (5 * doy + 2) \div 153
        m   == IF mp < 10 THEN mp + 3 ELSE mp - 9
        y   == yoe + era * 400 + (IF m <= 2 THEN 1 ELSE 0)
    IN  [year |-> y, month |-> m]

\* Day count of a calendar date.
DaysFromCivil(y0, m, dd) ==
    LET y   == IF m <= 2 THEN y0 - 1 ELSE y0
        era == y \div 400
        yoe == y - era * 400
        mp  == IF m > 2 THEN m - 3 ELSE m + 9
        doy == (153 * mp + 2) \div 5 + dd - 1
        doe == yoe * 365 + yoe \div 4 - yoe \div 100 + doy
    IN  era * 146097 + doe - 719468

\* time.Parse("2006-01-02", s) for a well-formed s: midnight UTC of that day
ParseDay(s) ==
    MkDate(DaysFromCivil(Atoi(SubSeq(s, 1, 4)), Atoi(SubSeq(s, 6, 7)),
                         Atoi(SubSeq(s, 9, 10))), 0, 0)

\* t.Date.Format("2006-01")
FormatMonth(d) ==
    LET ym == CivilYearMonth(LocalDay(d))
    IN  Pad(ym.year, 4) \o "-" \o Pad(ym.month, 2)

(***************************************************************************)
(* models.Transaction and its keys                                         *)
(***************************************************************************)

TransactionTypeIncome == "income"

TransactionTypeExpense == "expense"

\* A models.Transaction value as a caller builds it: no keys yet.
MkTx(user, id, date, amount, category, type, description, version) ==
    [id |-> id, user_id |-> user, date |-> date, amount |-> amount,
     description |-> description, category |-> category, type |-> type,
     PK |-> "", SK |-> "", GSI1PK |-> "", GSI1SK |-> "",
     GSI2PK |-> "", GSI2SK |-> "", version |-> version]

\* Mutant of GenerateKeys: the month of the index key is taken from the
\* date in UTC instead of the date's own zone.
GenerateKeys_UTCMonth(t) ==
    [t EXCEPT
       !.PK     = "USER#" \o t.user_id,
       !.SK     = "TRANSACTION#" \o UnixText(t.date) \o "#" \o t.id,
       !.GSI1PK = "MONTH#" \o FormatMonth([t.date EXCEPT !.off = 0])
                  \o "#" \o t.user_id,
       !.GSI1SK = "TRANSACTION#" \o UnixText(t.date),
       !.GSI2PK = "CATEGORY#" \o ToUpper(t.category) \o "#" \o t.user_id,
       !.GSI2SK = "TRANSACTION#" \o UnixText(t.date)]

\* a key generation that puts the category into the index key as it is
\* written in the record
GenerateKeys_CategoryAsWritten(t) ==
    [t EXCEPT
       !.PK     = "USER#" \o t.user_id,
       !.SK     = "TRANSACTION#" \o UnixText(t.date) \o "#" \o t.id,
       !.GSI1PK = "MONTH#" \o FormatMonth(t.date) \o "#" \o t.user_id,
       !.GSI1SK = "TRANSACTION#" \o UnixText(t.date),
       !.GSI2PK = "CATEGORY#" \o t.category \o "#" \o t.user_id,
       !.GSI2SK = "TRANSACTION#" \o UnixText(t.date)]

\* a key generation that builds the sort key on the sort key the record
\* already has
GenerateKeys_ExtendsSortKey(t) ==
    [t EXCEPT
       !.PK     = "USER#" \o t.user_id,
       !.SK     = t.SK \o "TRANSACTION#" \o UnixText(t.date) \o "#" \o t.id,
       !.GSI1PK = "MONTH#" \o FormatMonth(t.date) \o "#" \o t.user_id,
       !.GSI1SK = "TRANSACTION#" \o UnixText(t.date),
       !.GSI2PK = "CATEGORY#" \o ToUpper(t.category) \o "#" \o t.user_id,
       !.GSI2SK = "TRANSACTION#" \o UnixText(t.date)]

\* Transaction.GenerateKeys
GenerateKeys(t) ==
    [t EXCEPT
       !.PK     = "USER#" \o t.user_id,
       !.SK     = "TRANSACTION#" \o UnixText(t.date) \o "#" \o t.id,
       !.GSI1PK = "MONTH#" \o FormatMonth(t.date) \o "#" \o t.user_id,
       !.GSI1SK = "TRANSACTION#" \o UnixText(t.date),
       !.GSI2PK = "CATEGORY#" \o ToUpper(t.category) \o "#" \o t.user_id,
       !.GSI2SK = "TRANSACTION#" \o UnixText(t.date)]

\* Transaction.ToDynamoDBItem: the keys are regenerated, then every field of
\* the struct becomes an attribute of the item (version included, also 0).
ToDynamoDBItem(t) == GenerateKeys(t)

\* Transaction.FromDynamoDBItem: an attribute the item lacks leaves the
\* field at its zero value.
FromDynamoDBItem(item) ==
    [f \in DOMAIN item \cup {"version"} |->
        IF f \in DOMAIN item THEN item[f] ELSE 0]

\* Transaction.Validate; "" is the nil error
Validate(t) ==
    IF t.user_id = "" THEN "user_id is required"
    ELSE IF t.amount = 0 THEN "amount must be non-zero"
    ELSE IF t.type # "income" /\ t.type # "expense"
         THEN "type must be 'income' or 'expense'"
    ELSE IF t.category = "" THEN "category is required"
    ELSE IF IsZero(t.date) THEN "date is required"
    ELSE ""

(***************************************************************************)
(* The table: put, delete, query                                           *)
(***************************************************************************)

SameKey(a, b) == a.PK = b.PK /\ a.SK = b.SK

\* the items stored under a primary key (none or one)
ItemsAt(st, pk, sk) == {i \in st : i.PK = pk /\ i.SK = sk}

\* a put that leaves an item already stored under the key as it is
PutItem_KeepsExisting(st, item) ==
    IF ItemsAt(st, item.PK, item.SK) # {} THEN st ELSE st \cup {item}

\* PutItem without condition: the item replaces the one with its key.
PutItem(st, item) == {i \in st : ~SameKey(i, item)} \cup {item}

\* DeleteItem
DeleteItem(st, pk, sk) == {i \in st : ~(i.PK = pk /\ i.SK = sk)}

\* An item is in a secondary index when it has the index's key attributes
\* (a budget item has only PK and SK).
InIndex(i, index) ==
    CASE index = "GSI1" -> {"GSI1PK", "GSI1SK"} \subseteq DOMAIN i
      [] index = "GSI2" -> {"GSI2PK", "GSI2SK"} \subseteq DOMAIN i
      [] OTHER -> TRUE

\* Partition and sort key of an item in an index.
IndexPK(i, index) ==
    CASE index = "GSI1" -> i.GSI1PK
      [] index = "GSI2" -> i.GSI2PK
      [] OTHER -> i.PK

IndexSK(i, index) ==
    CASE index = "GSI1" -> i.GSI1SK
      [] index = "GSI2" -> i.GSI2SK
      [] OTHER -> i.SK

\* Order of two items of one index partition: by the index's sort key;
\* items of a secondary index with equal sort keys by their primary key.
ItemLess(a, b, index) ==
    IF IndexSK(a, index) # IndexSK(b, index)
    THEN StrLess(IndexSK(a, index), IndexSK(b, index))
    ELSE IF a.PK # b.PK THEN StrLess(a.PK, b.PK)
    ELSE StrLess(a.SK, b.SK)

\* the items of S in ascending index order
RECURSIVE SortItems(_, _)
SortItems(S, index) ==
    IF S = {} THEN <<>>
    ELSE LET m == CHOOSE x \in S : \A y \in S \ {x} : ItemLess(x, y, index)
         IN  <<m>> \o SortItems(S \ {m}, index)

Reverse(s) == [k \in 1..Len(s) |-> s[Len(s) + 1 - k]]

\* Query: the items of one partition of an index whose sort key starts
\* with skPrefix, in sort-key order (descending when forward is FALSE).
Query(st, index, pk, skPrefix, forward) ==
    LET hits == {i \in st : /\ InIndex(i, index)
                            /\ IndexPK(i, index) = pk
                            /\ HasPrefix(IndexSK(i, index), skPrefix)}
        asc  == SortItems(hits, index)
    IN  IF forward THEN asc ELSE Reverse(asc)

\* The page of a query result: the items after the cursor, at most limit
\* of them, and the cursor of the last one when more may follow.
Page(items, limit, lastKey) ==
    LET start == IF lastKey = <<>> THEN 0
                 ELSE CHOOSE k \in 0..Len(items) :
                        \/ k > 0 /\ <<items[k].PK, items[k].SK>> = lastKey
                        \/ k = 0 /\ \A j \in 1..Len(items) :
                                       <<items[j].PK, items[j].SK>> # lastKey
        stop  == IF start + limit < Len(items) THEN start + limit ELSE Len(items)
        out   == SubSeq(items, start + 1, stop)
    IN  [items |-> out,
         last  |-> IF out # <<>> /\ Len(out) = limit
                   THEN <<out[Len(out)].PK, out[Len(out)].SK>> ELSE <<>>]

(***************************************************************************)
(* Repository queries                                                      *)
(***************************************************************************)

\* DynamoDBRepository.GetTransactionsByUser
GetTransactionsByUser(st, userID, limit, lastKey) ==
    Page(Query(st, "table", "USER#" \o userID, "TX#", FALSE), limit, lastKey)

\* DynamoDBRepository.GetTransactionsByMonth
GetTransactionsByMonth(st, userID, month, limit, lastKey) ==
    Page(Query(st, "GSI1", "MONTH#" \o month \o "#" \o userID, "", FALSE),
         limit, lastKey)

\* Mutant of GetTransactionsByCategory: the category of the query is used
\* as given, not upper-cased.
GetTransactionsByCategory_AsGiven(st, userID, category, limit, lastKey) ==
    Page(Query(st, "GSI2", "CATEGORY#" \o category \o "#" \o userID, "", FALSE),
         limit, lastKey)

\* DynamoDBRepository.GetTransactionsByCategory
GetTransactionsByCategory(st, userID, category, limit, lastKey) ==
    Page(Query(st, "GSI2", "CATEGORY#" \o ToUpper(category) \o "#" \o userID,
               "", FALSE),
         limit, lastKey)

\* attributevalue.UnmarshalMap returns no error.  It fails on an attribute
\* whose type the struct's field cannot take; the model keeps an amount
\* attribute of string type under the name amount_S.
Decodes(item) == "amount_S" \notin DOMAIN item

\* a decoding loop that stops at the first item it cannot decode
Decoded_StopsAtFirstFailure(page) ==
    LET bad == {k \in 1..Len(page.items) : ~Decodes(page.items[k])}
        n   == IF bad = {} THEN Len(page.items)
               ELSE (CHOOSE k \in bad : \A j \in bad : k <= j) - 1
    IN  [k \in 1..n |-> FromDynamoDBItem(page.items[k])]

\* The decoding loop of the list queries: the items of the page that
\* decode, in the order of the page; an item that does not decode is
\* logged and skipped.
Decoded(page) ==
    LET good == SelectSeq(page.items, Decodes)
    IN  [k \in 1..Len(good) |-> FromDynamoDBItem(good[k])]

\* DynamoDBRepository.GetTransaction: the first item of the user's
\* partition, in ascending sort-key order under the prefix TX#, whose id is
\* transactionID; <<>> when there is none ("transaction not found").
GetTransaction(st, userID, transactionID) ==
    LET items == Query({i \in st : Decodes(i)}, "table", "USER#" \o userID,
                       "TX#", TRUE)
        hits  == {k \in 1..Len(items) : items[k].id = transactionID}
    IN  IF hits = {} THEN <<>>
        ELSE <<FromDynamoDBItem(items[CHOOSE k \in hits : \A j \in hits : k <= j])>>

(***************************************************************************)
(* Service and repository write paths, as functions of the table           *)
(***************************************************************************)

\* The reading of time.Now() used when a request carries no date.
NowDate == MkDate(19800, 43200, 0)

\* transactionService.ValidateTransaction: fills in id, date and version,
\* or returns an error text.  uuid is the value uuid.New() would return.
ValidateTransaction(t, uuid) ==
    LET t1 == IF t.id = "" THEN [t EXCEPT !.id = uuid] ELSE t
        t2 == IF IsZero(t1.date) THEN [t1 EXCEPT !.date = NowDate] ELSE t1
        t3 == IF t2.version = 0 THEN [t2 EXCEPT !.version = 1] ELSE t2
    IN  IF t1.user_id = "" THEN [err |-> "user ID is required", tx |-> t1]
        ELSE IF t1.amount = 0 THEN [err |-> "amount cannot be zero", tx |-> t1]
        ELSE IF t1.category = "" THEN [err |-> "category is required", tx |-> t1]
        ELSE IF t1.type # TransactionTypeIncome /\ t1.type # TransactionTypeExpense
             THEN [err |-> "type must be either income or expense", tx |-> t1]
        ELSE IF t1.description = ""
             THEN [err |-> "description is required", tx |-> t1]
        ELSE [err |-> "", tx |-> t3]

\* Mutant of ConditionNotExists: the put carries no condition.
ConditionNotExists_Dropped(st, pk, sk) == TRUE

\* attribute_not_exists(PK) AND attribute_not_exists(SK), evaluated on the
\* item stored under the key of the write
ConditionNotExists(st, pk, sk) == ItemsAt(st, pk, sk) = {}

\* attribute_exists(PK)
ConditionExists(st, pk, sk) == ItemsAt(st, pk, sk) # {}

\* version = :oldVersion
\* a put without the version condition
ConditionVersion_Dropped(st, pk, sk, oldVersion) == TRUE

ConditionVersion(st, pk, sk, oldVersion) ==
    \E i \in ItemsAt(st, pk, sk) :
        "version" \in DOMAIN i /\ i.version = oldVersion

\* DynamoDBRepository.CreateTransaction
RepoCreateTransaction(st, t) ==
    LET item == ToDynamoDBItem(t)
    IN  IF ConditionNotExists(st, item.PK, item.SK)
        THEN [store |-> PutItem(st, item), out |-> "ok", item |-> item]
        ELSE [store |-> st, out |-> "exists", item |-> item]

\* transactionService.CreateTransaction
SvcCreateTransaction(st, t, uuid) ==
    LET v == ValidateTransaction(t, uuid)
    IN  IF v.err # ""
        THEN [store |-> st, out |-> "invalid", item |-> v.tx]
        ELSE RepoCreateTransaction(st, GenerateKeys(v.tx))

\* UpdateTransaction up to and including its read: the service validation,
\* Transaction.Validate and GetTransaction.
UpdateReadStep(st, t, uuid) ==
    LET v == ValidateTransaction(t, uuid)
        existing == GetTransaction(st, v.tx.user_id, v.tx.id)
    IN  IF v.err # "" \/ Validate(v.tx) # ""
        THEN [out |-> "invalid", tx |-> v.tx, existing |-> <<>>]
        ELSE IF existing = <<>>
        THEN [out |-> "notfound", tx |-> v.tx, existing |-> <<>>]
        ELSE [out |-> "read", tx |-> v.tx, existing |-> existing]

\* UpdateTransaction from the version bump to the conditional PutItem.
UpdateWriteStep(st, t, existing) ==
    LET item == ToDynamoDBItem([t EXCEPT !.version = existing.version + 1])
    IN  IF ConditionVersion(st, item.PK, item.SK, existing.version)
        THEN [store |-> PutItem(st, item), out |-> "ok", item |-> item]
        ELSE [store |-> st, out |-> "conflict", item |-> item]

\* DeleteTransaction after its read: the conditional DeleteItem on the key
\* of the item that was found.
DeleteWriteStep(st, existing) ==
    IF ConditionExists(st, existing.PK, existing.SK)
    THEN [store |-> DeleteItem(st, existing.PK, existing.SK), out |-> "ok"]
    ELSE [store |-> st, out |-> "error"]

\* transformTransaction of the raw ingestion tool: the item it writes for a
\* raw record (date as YYYY-MM-DD text), with the uuid it drew.
SeedItem(raw, userID, txID) ==
    [id |-> txID, user_id |-> userID, date |-> ParseDay(raw.date),
     amount |-> raw.amount, description |-> raw.description,
     category |-> raw.category, type |-> raw.type,
     PK |-> "USER#" \o userID,
     SK |-> "TX#" \o raw.date \o "#" \o txID,
     GSI1PK |-> "MONTH#" \o FormatMonth(ParseDay(raw.date)) \o "#" \o userID,
     GSI1SK |-> "TX#" \o raw.date \o "#" \o txID,
     GSI2PK |-> "CATEGORY#" \o ToUpper(raw.category) \o "#" \o userID,
     GSI2SK |-> "TX#" \o raw.date \o "#" \o txID]

(***************************************************************************)
(* Batch load                                                              *)
(***************************************************************************)

batchSize == 25

maxRetries == 3

\* a chunking that takes one item too many: end = i + batchSize + 1
Chunk_OneTooMany(txs, i) ==
    SubSeq(txs, i + 1,
           IF i + batchSize + 1 > Len(txs) THEN Len(txs) ELSE i + batchSize + 1)

\* transactions[i:end] of BatchCreateTransactions
Chunk(txs, i) ==
    SubSeq(txs, i + 1, IF i + batchSize > Len(txs) THEN Len(txs) ELSE i + batchSize)

\* the write requests batchWriteTransactions builds for a chunk
WriteRequests(batch) ==
    [k \in 1..Len(batch) |-> ToDynamoDBItem(GenerateKeys(batch[k]))]

\* the puts of a batch, each replacing the item under its key
RECURSIVE PutAll(_, _)
PutAll(st, items) ==
    IF items = <<>> THEN st
    ELSE PutAll(PutItem(st, Head(items)), Tail(items))

\* a retry that submits the whole previous request again instead of the
\* unprocessed requests of the answer
BatchAfterCall_ResubmitsAll(r, left) ==
    IF left = <<>>
    THEN IF r.i + batchSize < Len(r.txs)
         THEN [done |-> FALSE, out |-> "",
               req |-> [r EXCEPT !.i = r.i + batchSize, !.retry = 0,
                          !.input = WriteRequests(Chunk(r.txs, r.i + batchSize))]]
         ELSE [done |-> TRUE, out |-> "ok", req |-> r]
    ELSE IF r.retry = maxRetries - 1
         THEN [done |-> TRUE, out |-> "failed", req |-> r]
         ELSE [done |-> FALSE, out |-> "",
               req |-> [r EXCEPT !.retry = r.retry + 1]]

\* a retry loop that gives up one submission late: retry == maxRetries
BatchAfterCall_OneMoreTry(r, left) ==
    IF left = <<>>
    THEN IF r.i + batchSize < Len(r.txs)
         THEN [done |-> FALSE, out |-> "",
               req |-> [r EXCEPT !.i = r.i + batchSize, !.retry = 0,
                          !.input = WriteRequests(Chunk(r.txs, r.i + batchSize))]]
         ELSE [done |-> TRUE, out |-> "ok", req |-> r]
    ELSE IF r.retry = maxRetries
         THEN [done |-> TRUE, out |-> "failed", req |-> r]
         ELSE [done |-> FALSE, out |-> "",
               req |-> [r EXCEPT !.retry = r.retry + 1, !.input = left]]

\* What batchWriteTransactions and the loop of BatchCreateTransactions do
\* with the answer of one BatchWriteItem call: r are the locals, left the
\* unprocessed requests of the answer.
BatchAfterCall(r, left) ==
    IF left = <<>>
    THEN IF r.i + batchSize < Len(r.txs)
         THEN [done |-> FALSE, out |-> "",
               req |-> [r EXCEPT !.i = r.i + batchSize, !.retry = 0,
                          !.input = WriteRequests(Chunk(r.txs, r.i + batchSize))]]
         ELSE [done |-> TRUE, out |-> "ok", req |-> r]
    ELSE IF r.retry = maxRetries - 1
         THEN [done |-> TRUE, out |-> "failed", req |-> r]
         ELSE [done |-> FALSE, out |-> "",
               req |-> [r EXCEPT !.retry = r.retry + 1, !.input = left]]

(***************************************************************************)
(* Request handlers                                                        *)
(***************************************************************************)

Procs == {"p1", "p2"}

Idle == [op |-> "none"]

NoRace == [user |-> "", id |-> "", v |-> 0, outs |-> [p \in Procs |-> ""],
           after |-> <<>>]

\* bound on the version an Update may start from
MaxVersion == 3

\* bound on the requests one BatchWriteItem call may leave unprocessed
MaxUnprocessed == 1

Finish(p, r) ==
    /\ pc' = [pc EXCEPT ![p] = "idle"]
    /\ req' = [req EXCEPT ![p] = Idle]
    /\ last' = r

\* POST /transactions
CreateTransaction(p, t, uuid) ==
    /\ pc[p] = "idle"
    /\ LET r == SvcCreateTransaction(store, t, uuid)
       IN  /\ store' = r.store
           /\ Finish(p, [op |-> "create", out |-> r.out,
                         key |-> <<r.item.PK, r.item.SK>>])
    /\ UNCHANGED race

\* GET /transactions/{id}
GetTransactionOp(p, userID, id) ==
    /\ pc[p] = "idle"
    /\ IF userID = "" \/ id = ""
       THEN Finish(p, [op |-> "get", user |-> userID, id |-> id,
                       out |-> "required"])
       ELSE LET found == GetTransaction(store, userID, id)
            IN  Finish(p, [op |-> "get", user |-> userID, id |-> id,
                           out |-> IF found = <<>> THEN "notfound" ELSE "ok"])
    /\ UNCHANGED <<store, race>>

\* UpdateTransaction, first half: validation and the read of the current
\* record.  An Update that finds no record returns here.  race notes two
\* Updates of one record that have both read the same version before either
\* has written.
UpdateRead(p, t, uuid) ==
    /\ pc[p] = "idle"
    /\ LET r == UpdateReadStep(store, t, uuid)
           racing == {q \in Procs \ {p} :
                        /\ pc[q] = "update"
                        /\ r.out = "read"
                        /\ req[q].tx.user_id = r.tx.user_id
                        /\ req[q].tx.id = r.tx.id
                        /\ req[q].existing.version = r.existing[1].version}
       IN  IF r.out = "read"
           THEN /\ r.existing[1].version < MaxVersion
                /\ pc' = [pc EXCEPT ![p] = "update"]
                /\ req' = [req EXCEPT ![p] =
                             [op |-> "update", tx |-> r.tx,
                              existing |-> r.existing[1]]]
                /\ race' = IF racing = {} THEN race
                           ELSE [user |-> r.tx.user_id, id |-> r.tx.id,
                                 v |-> r.existing[1].version,
                                 outs |-> [q \in Procs |->
                                            IF q = p \/ q \in racing
                                            THEN "pending" ELSE ""],
                                 after |-> <<>>]
                /\ UNCHANGED last
           ELSE /\ Finish(p, [op |-> "update", out |-> r.out,
                              user |-> r.tx.user_id, id |-> r.tx.id])
                /\ UNCHANGED race
    /\ UNCHANGED store

\* UpdateTransaction, second half: the conditional write.  The outcome
\* notes whether the record that was read had been replaced or removed by
\* the time of the write (stale).
UpdateWrite(p) ==
    /\ pc[p] = "update"
    /\ LET r == UpdateWriteStep(store, req[p].tx, req[p].existing)
           outs == [race.outs EXCEPT ![p] = r.out]
       IN  /\ store' = r.store
           /\ Finish(p, [op |-> "update", out |-> r.out,
                         user |-> req[p].tx.user_id, id |-> req[p].tx.id,
                         stale |-> \A i \in store :
                                     FromDynamoDBItem(i) # req[p].existing])
           /\ race' = IF race.outs[p] # "pending" THEN race
                      ELSE [race EXCEPT
                              !.outs = outs,
                              !.after =
                                 IF \E q \in Procs : outs[q] = "pending"
                                 THEN <<>>
                                 ELSE GetTransaction(r.store, race.user, race.id)]

\* DeleteTransaction, first half: find the record.
DeleteRead(p, userID, id) ==
    /\ pc[p] = "idle"
    /\ LET found == GetTransaction(store, userID, id)
       IN  IF found = <<>>
           THEN Finish(p, [op |-> "delete", out |-> "notfound",
                           user |-> userID, id |-> id])
           ELSE /\ pc' = [pc EXCEPT ![p] = "delete"]
                /\ req' = [req EXCEPT ![p] =
                             [op |-> "delete", user |-> userID, id |-> id,
                              existing |-> found[1]]]
                /\ UNCHANGED last
    /\ UNCHANGED <<store, race>>

\* DeleteTransaction, second half: the conditional delete.
DeleteWrite(p) ==
    /\ pc[p] = "delete"
    /\ LET r == DeleteWriteStep(store, req[p].existing)
       IN  /\ store' = r.store
           /\ Finish(p, [op |-> "delete", out |-> r.out,
                         user |-> req[p].user, id |-> req[p].id])
    /\ UNCHANGED race

\* One record written by the raw ingestion tool, under a fresh uuid.
SeedWrite(raw, userID, txID) ==
    /\ \A i \in store : i.id # txID
    /\ store' = PutItem(store, SeedItem(raw, userID, txID))
    /\ UNCHANGED <<pc, req, last, race>>

\* User.GenerateKeys
UserGenerateKeys(u) == [u EXCEPT !.PK = "USER#" \o u.id, !.SK = "PROFILE"]

\* DynamoDBRepository.CreateUser as the seed loader calls it: the profile
\* item of the user, put on condition that there is none; the loader logs
\* the refusal and goes on.
CreateUser(userID) ==
    /\ LET item == UserGenerateKeys([id |-> userID,
                                     email |-> "default@stori.com",
                                     name |-> "Default User",
                                     PK |-> "", SK |-> ""])
       IN  store' = IF ConditionNotExists(store, item.PK, item.SK)
                    THEN PutItem(store, item) ELSE store
    /\ UNCHANGED <<pc, req, last, race>>

\* BatchCreateTransactions up to its first BatchWriteItem call.  The
\* locals keep, beside the loop variables, the list of the BatchWriteItem
\* calls made so far (what was sent, what came back unprocessed).
BatchCreateTransactions(p, txs) ==
    /\ pc[p] = "idle"
    /\ IF Len(txs) = 0
       THEN Finish(p, [op |-> "batch", out |-> "ok", txs |-> txs, i |-> 0,
                       calls |-> <<>>])
       ELSE /\ pc' = [pc EXCEPT ![p] = "batch"]
            /\ req' = [req EXCEPT ![p] =
                         [op |-> "batch", txs |-> txs, i |-> 0, retry |-> 0,
                          input |-> WriteRequests(Chunk(txs, 0)),
                          calls |-> <<>>]]
            /\ UNCHANGED last
    /\ UNCHANGED <<store, race>>

\* One BatchWriteItem call that the store answers: it writes all but the
\* last k requests and reports those k as unprocessed.
BatchWriteItem(p, k) ==
    /\ pc[p] = "batch"
    /\ k <= Len(req[p].input)
    /\ LET n    == Len(req[p].input)
           left == SubSeq(req[p].input, n - k + 1, n)
           log  == Append(req[p].calls,
                          [i |-> req[p].i, sent |-> req[p].input,
                           left |-> left, err |-> FALSE])
           nxt  == BatchAfterCall(req[p], left)
       IN  /\ store' = PutAll(store, SubSeq(req[p].input, 1, n - k))
           /\ IF nxt.done
              THEN Finish(p, [op |-> "batch", out |-> nxt.out,
                              txs |-> req[p].txs, i |-> req[p].i,
                              calls |-> log])
              ELSE /\ req' = [req EXCEPT ![p] = [nxt.req EXCEPT !.calls = log]]
                   /\ UNCHANGED <<pc, last>>
    /\ UNCHANGED race

\* One BatchWriteItem call that returns an error: nothing is written and
\* batchWriteTransactions returns the error.
BatchWriteItemError(p) ==
    /\ pc[p] = "batch"
    /\ Finish(p, [op |-> "batch", out |-> "error", txs |-> req[p].txs,
                  i |-> req[p].i,
                  calls |-> Append(req[p].calls,
                                   [i |-> req[p].i, sent |-> req[p].input,
                                    left |-> req[p].input, err |-> TRUE])])
    /\ UNCHANGED <<store, race>>

(***************************************************************************)
(* Budgets                                                                 *)
(***************************************************************************)

\* time.Parse("2006-01", month) returns no error
ValidMonth(month) ==
    /\ Len(month) = 7
    /\ SubSeq(month, 5, 5) = "-"
    /\ \A k \in {1, 2, 3, 4, 6, 7} :
          \E d \in 1..Len(Digits) : Digits[d] = SubSeq(month, k, k)
    /\ Atoi(SubSeq(month, 6, 7)) \in 1..12

\* a budget key made from the category as the caller wrote it
BudgetGenerateKeys_CategoryAsGiven(b) ==
    [b EXCEPT !.PK = "USER#" \o b.user_id,
              !.SK = "BUDGET#" \o b.month \o "#" \o b.category]

\* Budget.GenerateKeys
BudgetGenerateKeys(b) ==
    [b EXCEPT !.PK = "USER#" \o b.user_id,
              !.SK = "BUDGET#" \o b.month \o "#" \o ToUpper(b.category)]

\* DynamoDBRepository.CreateOrUpdateBudget: id if there is none, keys, and
\* a put without condition
RepoCreateOrUpdateBudget(st, b, uuid) ==
    PutItem(st, BudgetGenerateKeys(
                    BudgetGenerateKeys(IF b.id = "" THEN [b EXCEPT !.id = uuid]
                                       ELSE b)))

\* BudgetService.CreateOrUpdateBudget
SvcCreateOrUpdateBudget(st, userID, month, category, amount, uuid) ==
    IF amount < 0 THEN [store |-> st, out |-> "negative"]
    ELSE IF ~ValidMonth(month) THEN [store |-> st, out |-> "month"]
    ELSE [store |-> RepoCreateOrUpdateBudget(st,
                       [id |-> "", user_id |-> userID, category |-> category,
                        month |-> month, amount |-> amount,
                        PK |-> "USER#" \o userID,
                        SK |-> "BUDGET#" \o month \o "#" \o category], uuid),
          out |-> "ok"]

\* DynamoDBRepository.GetBudgetsByMonth
GetBudgetsByMonth(st, userID, month) ==
    SelectSeq(Query(st, "table", "USER#" \o userID,
                    "BUDGET#" \o month \o "#", TRUE), Decodes)

\* DynamoDBRepository.GetBudget: the budget under the key, or the error
GetBudget(st, userID, month, category) ==
    LET hit == ItemsAt(st, "USER#" \o userID,
                       "BUDGET#" \o month \o "#" \o ToUpper(category))
    IN  IF hit = {} THEN [err |-> "budget not found", budget |-> <<>>]
        ELSE IF \E b \in hit : ~Decodes(b)
        THEN [err |-> "failed to unmarshal budget", budget |-> <<>>]
        ELSE [err |-> "", budget |-> <<CHOOSE b \in hit : TRUE>>]

\* PUT of a budget.  The outcome notes whether the put replaced an item.
CreateOrUpdateBudget(p, userID, month, category, amount, uuid) ==
    /\ pc[p] = "idle"
    /\ LET r == SvcCreateOrUpdateBudget(store, userID, month, category,
                                        amount, uuid)
       IN  /\ store' = r.store
           /\ Finish(p, [op |-> "budget", out |-> r.out, user |-> userID,
                         month |-> month, category |-> category,
                         amount |-> amount,
                         replaced |-> r.out = "ok" /\ r.store \ store # {}
                                      /\ Cardinality(r.store) = Cardinality(store)])
    /\ UNCHANGED race

\* DynamoDBRepository.DeleteBudget: a delete conditioned on existence
DeleteBudget(p, userID, month, category) ==
    /\ pc[p] = "idle"
    /\ LET pk == "USER#" \o userID
           sk == "BUDGET#" \o month \o "#" \o ToUpper(category)
           ok == ConditionExists(store, pk, sk)
       IN  /\ store' = IF ok THEN DeleteItem(store, pk, sk) ELSE store
           /\ Finish(p, [op |-> "budgetdelete",
                         out |-> IF ok THEN "ok" ELSE "error",
                         user |-> userID, month |-> month,
                         category |-> category])
    /\ UNCHANGED race

(***************************************************************************)
(* Analytics                                                               *)
(***************************************************************************)

\* The float64 quotients of the code are kept as exact fractions in lowest
\* terms with a positive denominator.
RECURSIVE Gcd(_, _)
Gcd(a, b) == IF b = 0 THEN a ELSE Gcd(b, a % b)

Abs(n) == IF n < 0 THEN -n ELSE n

Rat(n, d) ==
    LET g == Gcd(Abs(n), Abs(d))
        s == IF d < 0 THEN -1 ELSE 1
    IN  [num |-> s * (n \div g), den |-> s * (d \div g)]

RatZero == [num |-> 0, den |-> 1]

RatAdd(x, y) == Rat(x.num * y.den + y.num * x.den, x.den * y.den)

\* the page size of the analytics queries
analyticsLimit == 1000

RECURSIVE SumAmounts(_)
SumAmounts(txs) ==
    IF Len(txs) = 0 THEN 0 ELSE txs[1].amount + SumAmounts(Tail(txs))

OfType(txs, type) == SelectSeq(txs, LAMBDA t : t.type = type)

OfCategory(txs, category) == SelectSeq(txs, LAMBDA t : t.category = category)

\* sort.Slice by category: the strings of S in ascending order
RECURSIVE SortStrings(_)
SortStrings(S) ==
    IF S = {} THEN <<>>
    ELSE LET m == CHOOSE x \in S : \A y \in S \ {x} : StrLess(x, y)
         IN  <<m>> \o SortStrings(S \ {m})

\* (breakdown.Amount / totalExpenses) * 100
Percentage(amount, total) == Rat(amount * 100, total)

\* AnalyticsService.GetFinancialSummary
GetFinancialSummary(st, userID) ==
    IF userID = "" THEN [err |-> "userID is required"]
    ELSE
    LET transactions  == Decoded(GetTransactionsByUser(st, userID,
                                                       analyticsLimit, <<>>))
        incomes       == OfType(transactions, TransactionTypeIncome)
        expenses      == OfType(transactions, TransactionTypeExpense)
        totalIncome   == SumAmounts(incomes)
        totalExpenses == -SumAmounts(expenses)
        totalBalance  == totalIncome - totalExpenses
        categories    == SortStrings({expenses[k].category :
                                         k \in 1..Len(expenses)})
    IN  [err               |-> "",
         TotalBalance      |-> totalBalance,
         MonthlyIncome     |-> totalIncome,
         MonthlyExpenses   |-> -totalExpenses,
         AvailableMoney    |-> totalBalance,
         SavingsRate       |-> IF totalIncome > 0
                               THEN Rat(totalBalance * 100, totalIncome)
                               ELSE RatZero,
         CategoryBreakdown |->
            [k \in 1..Len(categories) |->
               LET mine   == OfCategory(expenses, categories[k])
                   amount == -SumAmounts(mine)
               IN  [Category   |-> categories[k],
                    Amount     |-> amount,
                    Count      |-> Len(mine),
                    Percentage |-> IF totalExpenses > 0
                                   THEN Percentage(amount, totalExpenses)
                                   ELSE RatZero]]]

(***************************************************************************)
(* Inputs                                                                  *)
(***************************************************************************)

D1 == MkDate(19737, 0, 0)           \* 2024-01-15T00:00:00Z

D2 == MkDate(19754, 0, 0)           \* 2024-02-01T00:00:00Z

D2West == MkDate(19754, 0, -18000)  \* the same instant, 2024-01-31T19:00:00-05:00

Expense(user, id, date, category) ==
    MkTx(user, id, date, -50, category, TransactionTypeExpense, "lunch", 0)

RawSeed(date, category) ==
    [date |-> date, amount |-> -50, category |-> category,
     type |-> TransactionTypeExpense, description |-> "seed"]

\* Requests of the concurrent specification: one user, two ids, two dates,
\* and one request that validation rejects.
ConcTxs ==
    {Expense("u1", "a", D1, "food"), Expense("u1", "a", D2, "food"),
     Expense("u1", "b", D1, "food")}
    \cup {MkTx("u1", "a", D1, 0, "food", TransactionTypeExpense, "lunch", 0)}

ConcIds == {"a", "b"}

(***************************************************************************)
(* Specification of concurrent request handlers                            *)
(***************************************************************************)

Init ==
    /\ store = {}
    /\ pc = [p \in Procs |-> "idle"]
    /\ req = [p \in Procs |-> Idle]
    /\ last = Idle
    /\ race = NoRace

Next ==
    \/ \E p \in Procs, t \in ConcTxs : CreateTransaction(p, t, "n")
    \/ \E p \in Procs, id \in ConcIds \cup {""} : GetTransactionOp(p, "u1", id)
    \/ \E p \in Procs, t \in ConcTxs : UpdateRead(p, t, "n")
    \/ \E p \in Procs : UpdateWrite(p)
    \/ \E p \in Procs, id \in ConcIds : DeleteRead(p, "u1", id)
    \/ \E p \in Procs : DeleteWrite(p)
    \/ \E id \in ConcIds : SeedWrite(RawSeed("2024-01-15", "food"), "u1", id)
    \/ CreateUser("u1")

Spec == Init /\ [][Next]_vars

(***************************************************************************)
(* Specification of one batch load into an empty table                     *)
(***************************************************************************)

\* bound on the number of transactions of a batch load
MaxBatchLen == 51

\* n transactions with the ids t1 .. tn
\* the id uuid.New() gives inside NewTransaction
LoaderUuid == "g"

\* NewTransaction: a fresh id, version 1, and the keys of that record
NewTransaction(t, uuid) ==
    GenerateKeys([t EXCEPT !.id = uuid, !.version = 1])

\* A record as the seed loader hands it to the batch load: built by
\* NewTransaction, then given the id of the JSON entry; the keys are not
\* regenerated and still carry the id NewTransaction drew.
Loaded(t) == [NewTransaction(t, LoaderUuid) EXCEPT !.id = t.id]

BatchInput(n) == [k \in 1..n |-> Loaded(Expense("u1", "t" \o Itoa(k), D1, "food"))]

NextBatch ==
    \/ \E n \in 0..MaxBatchLen :
          /\ store = {}
          /\ BatchCreateTransactions("p1", BatchInput(n))
    \/ \E k \in 0..MaxUnprocessed : BatchWriteItem("p1", k)
    \/ BatchWriteItemError("p1")

SpecBatch == Init /\ [][NextBatch]_vars

(***************************************************************************)
(* Specification of repeated batch loads into the same table               *)
(***************************************************************************)

\* A load of two chunks, and a load of two items that have the keys of
\* the first and the last item of it but another amount.
ResumeInputs ==
    {BatchInput(batchSize + 1),
     <<[BatchInput(1)[1] EXCEPT !.amount = -70],
       [BatchInput(batchSize + 1)[batchSize + 1] EXCEPT !.amount = -70]>>}

NextResume ==
    \/ \E txs \in ResumeInputs : BatchCreateTransactions("p1", txs)
    \/ \E k \in 0..MaxUnprocessed : BatchWriteItem("p1", k)
    \/ BatchWriteItemError("p1")

SpecResume == Init /\ [][NextResume]_vars

(***************************************************************************)
(* Specification of one handler with varied users, dates and categories    *)
(***************************************************************************)

KeyUsers == {"u1", "u2"}

KeyIds == {"a", "b", "s"}

KeyMonths == {"2024-01", "2024-02"}

KeyCategories == {"food", "Food", "FOOD", "rent", "RENT"}

\* Requests: one id of user u1 on two instants (one of them seen from two
\* zones) and in categories that differ in case only; the same id for a
\* second user; a request that validation rejects.
KeyTxs ==
    {Expense("u1", "a", D1, c) : c \in {"food", "Food"}}
    \cup {Expense("u1", "a", D2, "food"), Expense("u1", "a", D2West, "Food"),
          Expense("u2", "a", D2West, "food"),
          Expense("u1", "a", D1, "")}

KeyBatches ==
    {<<Loaded(Expense("u1", "a", D1, "rent")),
       Loaded(Expense("u2", "b", D2West, "FOOD"))>>}

NextKeys ==
    \/ \E t \in KeyTxs : CreateTransaction("p1", t, "n")
    \/ \E u \in KeyUsers, id \in KeyIds : GetTransactionOp("p1", u, id)
    \/ \E t \in KeyTxs : UpdateRead("p1", t, "n")
    \/ UpdateWrite("p1")
    \/ \E u \in KeyUsers, id \in KeyIds : DeleteRead("p1", u, id)
    \/ DeleteWrite("p1")
    \/ \E id \in {"a", "s"} : SeedWrite(RawSeed("2024-01-15", "Food"), "u1", id)
    \/ \E txs \in KeyBatches : BatchCreateTransactions("p1", txs)
    \/ \E k \in 0..MaxUnprocessed : BatchWriteItem("p1", k)
    \/ BatchWriteItemError("p1")

SpecKeys == Init /\ [][NextKeys]_vars

(***************************************************************************)
(* Specification of a table read page by page                              *)
(***************************************************************************)

DEarly == MkDate(11574, 0, 0)       \* 2001-09-09T00:00:00Z, Unix 999993600

DLate == MkDate(11574, 7200, 0)     \* 2001-09-09T02:00:00Z, Unix 1000000800

\* bound on the page limit of a query
MaxLimit == 3

\* Requests: two ids of one user, each on the same three instants, so that
\* items of one index partition share their date second.
PageTxs ==
    {Expense("u1", id, d, "food") : id \in {"a", "b"}, d \in {DEarly, DLate, D1}}

PageSeeds == {RawSeed("2001-09-09", "food"), RawSeed("2024-01-15", "food")}

NextPages ==
    \/ \E t \in PageTxs : CreateTransaction("p1", t, "n")
    \/ \E raw \in PageSeeds, id \in {"s", "t"} : SeedWrite(raw, "u1", id)

SpecPages == Init /\ [][NextPages]_vars

\* The list queries of SpecPages: the by-user query, the by-month query of
\* two months and the by-category query.
PageQueries ==
    {[kind |-> "user", user |-> "u1", arg |-> ""],
     [kind |-> "month", user |-> "u1", arg |-> "2001-09"],
     [kind |-> "month", user |-> "u1", arg |-> "2024-01"],
     [kind |-> "category", user |-> "u1", arg |-> "Food"]}

\* one call of a list query
PageOf(st, q, limit, lastKey) ==
    CASE q.kind = "user" ->
           GetTransactionsByUser(st, q.user, limit, lastKey)
      [] q.kind = "month" ->
           GetTransactionsByMonth(st, q.user, q.arg, limit, lastKey)
      [] OTHER ->
           GetTransactionsByCategory(st, q.user, q.arg, limit, lastKey)

\* A caller that follows the returned cursor until it is empty, for at most
\* fuel further calls: the transactions of all pages in the order returned,
\* and whether the cursor came back empty.
RECURSIVE FollowCursor(_, _, _, _, _)
FollowCursor(st, q, limit, lastKey, fuel) ==
    LET page == PageOf(st, q, limit, lastKey)
    IN  IF page.last = <<>>
        THEN [items |-> Decoded(page), ended |-> TRUE]
        ELSE IF fuel = 0
        THEN [items |-> Decoded(page), ended |-> FALSE]
        ELSE LET rest == FollowCursor(st, q, limit, page.last, fuel - 1)
             IN  [items |-> Decoded(page) \o rest.items, ended |-> rest.ended]

(***************************************************************************)
(* Specification of the life of one record                                 *)
(***************************************************************************)

\* Requests for one record of user u1, with the version the caller put in
\* the request body: none (0) or 2.  A second handler runs Deletes beside
\* the requests of the first.
LifeTxs ==
    {[Expense("u1", "a", D1, "food") EXCEPT !.version = v] : v \in {0, 2}}

\* Create requests: the requests above and one without a date.
LifeCreates == LifeTxs \cup {Expense("u1", "a", ZeroDate, "food")}

\* Batch loads of one record as the seed loader builds them with
\* NewTransaction (version 1): the record of the requests above, and a
\* record without description.
LifeBatches ==
    {<<Loaded(Expense("u1", "a", D1, "food"))>>,
     <<[Loaded(Expense("u1", "b", D1, "food")) EXCEPT !.description = ""]>>}

NextLife ==
    \/ \E t \in LifeCreates : CreateTransaction("p1", t, "n")
    \/ GetTransactionOp("p1", "u1", "a")
    \/ \E t \in LifeTxs : UpdateRead("p1", t, "n")
    \/ UpdateWrite("p1")
    \/ \E p \in Procs : DeleteRead(p, "u1", "a")
    \/ \E p \in Procs : DeleteWrite(p)
    \/ SeedWrite(RawSeed("2024-01-15", "food"), "u1", "a")
    \/ \E txs \in LifeBatches : BatchCreateTransactions("p1", txs)
    \/ \E k \in 0..MaxUnprocessed : BatchWriteItem("p1", k)
    \/ BatchWriteItemError("p1")
    \/ CreateUser("u1")

SpecLife == Init /\ [][NextLife]_vars

(***************************************************************************)
(* Specification of the budgets of a user                                  *)
(***************************************************************************)

BudgetUsers == {"u1", "u2"}

\* two months and a text that is no month
BudgetMonths == {"2024-01", "2024-02", "2024-13"}

BudgetCategories == {"food", "Food", "rent"}

BudgetAmounts == {-1, 100, 200}

\* All budgets of the first month for user u1; one budget for the second
\* month and one for user u2.
NextBudgets ==
    \/ \E u \in BudgetUsers, m \in BudgetMonths, c \in BudgetCategories,
          a \in BudgetAmounts :
          /\ (u = "u2" \/ m = "2024-02") => (c = "food" /\ a = 100)
          /\ u = "u2" => m = "2024-01"
          /\ CreateOrUpdateBudget("p1", u, m, c, a, "n")
    \/ \E m \in BudgetMonths, c \in BudgetCategories :
          DeleteBudget("p1", "u1", m, c)

SpecBudgets == Init /\ [][NextBudgets]_vars

(***************************************************************************)
(* Monthly analytics and budget utilization                                *)
(***************************************************************************)

\* t.Format("2006-01-02")
FormatDay(d) ==
    LET ym == CivilYearMonth(LocalDay(d))
    IN  FormatMonth(d) \o "-"
        \o Pad(LocalDay(d) - DaysFromCivil(ym.year, ym.month, 1) + 1, 2)

\* getMonthDateRange: first and last day of the month as texts, <<>> when
\* the month does not parse
getMonthDateRange(month) ==
    IF ~ValidMonth(month) THEN <<>>
    ELSE LET y     == Atoi(SubSeq(month, 1, 4))
             m     == Atoi(SubSeq(month, 6, 7))
             first == DaysFromCivil(y, m, 1)
             next  == DaysFromCivil(IF m = 12 THEN y + 1 ELSE y,
                                    IF m = 12 THEN 1 ELSE m + 1, 1)
         IN  <<FormatDay(MkDate(first, 0, 0)), FormatDay(MkDate(next - 1, 0, 0))>>

\* a <= b for strings
StrLeq(a, b) == a = b \/ StrLess(a, b)

\* categorySpending of GetBudgetUtilization: the absolute amounts of the
\* expenses of the category dated from startDate to endDate
Spending(txs, category, range) ==
    LET counted == SelectSeq(txs, LAMBDA t :
                      /\ t.type = "expense"
                      /\ StrLeq(range[1], FormatDay(t.date))
                      /\ StrLeq(FormatDay(t.date), range[2])
                      /\ t.category = category)
    IN  SumAmounts([k \in 1..Len(counted) |->
                       [amount |-> Abs(counted[k].amount)]])

\* BudgetService.GetBudgetUtilization with pages of limit items: the
\* utilization of every budget of the month, keyed by the budget's category
BudgetUtilizationWith(st, userID, month, limit) ==
    IF ~ValidMonth(month) THEN [err |-> "month"]
    ELSE
    LET budgets == GetBudgetsByMonth(st, userID, month)
        range   == getMonthDateRange(month)
        all     == FollowCursor(st, [kind |-> "user", user |-> userID,
                                     arg |-> ""],
                                limit, <<>>, Cardinality(st) + 1).items
        cats    == {budgets[k].category : k \in 1..Len(budgets)}
    IN  [err |-> "",
         utilization |->
            [c \in cats |->
               LET budget == budgets[CHOOSE k \in 1..Len(budgets) :
                                 /\ budgets[k].category = c
                                 /\ \A j \in (k + 1)..Len(budgets) :
                                       budgets[j].category # c]
                   spent  == Spending(all, c, range)
               IN  [Category     |-> c,
                    BudgetAmount |-> budget.amount,
                    SpentAmount  |-> spent,
                    Remaining    |-> budget.amount - spent,
                    Percentage   |-> IF budget.amount > 0
                                     THEN Rat(spent * 100, budget.amount)
                                     ELSE RatZero]]]

\* BudgetService.GetBudgetUtilization
GetBudgetUtilization(st, userID, month) ==
    BudgetUtilizationWith(st, userID, month, analyticsLimit)

\* DynamoDBRepository.GetMonthlyAnalytics
GetMonthlyAnalytics(st, userID, month) ==
    LET transactions == Decoded(GetTransactionsByMonth(st, userID, month,
                                                       analyticsLimit, <<>>))
        incomes      == OfType(transactions, TransactionTypeIncome)
        others       == SelectSeq(transactions,
                                  LAMBDA t : t.type # TransactionTypeIncome)
        categories   == {transactions[k].category : k \in 1..Len(transactions)}
    IN  [Month             |-> month,
         TotalIncome       |-> SumAmounts(incomes),
         TotalExpense      |-> SumAmounts(others),
         Balance           |-> SumAmounts(incomes) - SumAmounts(others),
         CategoryBreakdown |-> [c \in categories |->
                                   SumAmounts(OfCategory(transactions, c))],
         TransactionCount  |-> Len(transactions)]

\* analyticsService.GetFinancialSummaryWithBudgets
GetFinancialSummaryWithBudgets(st, userID, month) ==
    IF userID = "" \/ month = "" THEN [err |-> "userID and month are required"]
    ELSE IF ~ValidMonth(month) THEN [err |-> "failed to get budgets"]
    ELSE
    LET transactions    == Decoded(GetTransactionsByMonth(st, userID, month,
                                                          analyticsLimit, <<>>))
        expenses        == OfType(transactions, TransactionTypeExpense)
        monthlyIncome   == SumAmounts(OfType(transactions, TransactionTypeIncome))
        monthlyExpenses == -SumAmounts(expenses)
        budgets         == GetBudgetsByMonth(st, userID, month)
        budgetOf(c)     == {budgets[k].amount : k \in {j \in 1..Len(budgets) :
                               /\ budgets[j].category = c
                               /\ \A i \in (j + 1)..Len(budgets) :
                                     budgets[i].category # c}}
        categories      == SortStrings(
                              {expenses[k].category : k \in 1..Len(expenses)}
                              \cup {budgets[k].category : k \in 1..Len(budgets)})
    IN  [err               |-> "",
         Month             |-> month,
         TotalIncome       |-> monthlyIncome,
         TotalExpense      |-> monthlyExpenses,
         Balance           |-> monthlyIncome - monthlyExpenses,
         CategoryBreakdown |->
            [k \in 1..Len(categories) |->
               LET spent  == -SumAmounts(OfCategory(expenses, categories[k]))
                   budget == IF budgetOf(categories[k]) = {} THEN 0
                             ELSE CHOOSE a \in budgetOf(categories[k]) : TRUE
               IN  [Category  |-> categories[k],
                    Amount    |-> spent,
                    Budget    |-> budget,
                    Remaining |-> budget - spent]],
         TransactionCount  |-> Len(transactions)]

(***************************************************************************)
(* Specification of the financial summary of a user                        *)
(***************************************************************************)

RawTx(date, amount, category, type) ==
    [date |-> date, amount |-> amount, category |-> category,
     type |-> type, description |-> "seed"]

\* Records of the ingestion tool: expenses of both signs in two categories
\* and an income.
SummaryRaws ==
    {RawTx("2024-01-15", -50, "food", TransactionTypeExpense),
     RawTx("2024-02-01", -30, "food", TransactionTypeExpense),
     RawTx("2024-01-20", 2000, "salary", TransactionTypeIncome),
     RawTx("2024-01-15", -30, "rent", TransactionTypeExpense),
     RawTx("2024-01-15", 50, "rent", TransactionTypeExpense)}

SummaryIds == {"s1", "s2", "s3"}

\* Requests of the API: an expense and an income.
SummaryTxs ==
    {Expense("u1", "a", D1, "food"),
     MkTx("u1", "b", D1, 2000, "salary", TransactionTypeIncome, "pay", 0)}

NextSummary ==
    \/ \E raw \in SummaryRaws, id \in SummaryIds : SeedWrite(raw, "u1", id)
    \/ \E t \in SummaryTxs : CreateTransaction("p1", t, "n")

SpecSummary == Init /\ [][NextSummary]_vars

(***************************************************************************)
(* Specification of the analytics of one month with budgets                *)
(***************************************************************************)

MonthRaws ==
    {RawTx("2024-01-15", -50, "food", TransactionTypeExpense),
     RawTx("2024-02-01", -30, "food", TransactionTypeExpense),
     RawTx("2024-01-20", 2000, "salary", TransactionTypeIncome),
     RawTx("2024-01-31", 20, "rent", TransactionTypeExpense)}

MonthIds == {"s1", "s2", "s3"}

MonthBudgets == {<<"food", 100>>, <<"food", 0>>, <<"rent", 100>>}

NextMonth ==
    \/ \E raw \in MonthRaws, id \in MonthIds : SeedWrite(raw, "u1", id)
    \/ CreateTransaction("p1", Expense("u1", "a", D1, "food"), "n")
    \/ \E b \in MonthBudgets :
          CreateOrUpdateBudget("p1", "u1", "2024-01", b[1], b[2], "n")

SpecMonth == Init /\ [][NextMonth]_vars

(***************************************************************************)
(* Specification of a table with items that do not decode                  *)
(***************************************************************************)

\* The item with its amount attribute turned into a string attribute.
Undecodable(item) ==
    [f \in (DOMAIN item \ {"amount"}) \cup {"amount_S"} |->
        IF f = "amount_S" THEN "n/a" ELSE item[f]]

\* A write to the table by a program other than the repository: an item
\* under a fresh id that the decoding loop cannot decode.
ForeignWrite(item) ==
    /\ \A i \in store : i.id # item.id
    /\ store' = PutItem(store, Undecodable(item))
    /\ UNCHANGED <<pc, req, last, race>>

DecodeRaws ==
    {RawTx("2024-01-15", -50, "food", TransactionTypeExpense),
     RawTx("2024-01-20", -30, "Food", TransactionTypeExpense)}

DecodeIds == {"s1", "s2", "s3"}

DecodeBudgets ==
    {[id |-> "b1", user_id |-> "u1", category |-> "food", month |-> "2024-01",
      amount |-> 100, PK |-> "USER#u1", SK |-> "BUDGET#2024-01#FOOD"],
     [id |-> "b2", user_id |-> "u1", category |-> "rent", month |-> "2024-01",
      amount |-> 100, PK |-> "USER#u1", SK |-> "BUDGET#2024-01#RENT"]}

NextDecode ==
    \/ \E raw \in DecodeRaws, id \in DecodeIds : SeedWrite(raw, "u1", id)
    \/ \E raw \in DecodeRaws, id \in DecodeIds :
          ForeignWrite(SeedItem(raw, "u1", id))
    \/ \E b \in DecodeBudgets : ForeignWrite(b)
    \/ CreateOrUpdateBudget("p1", "u1", "2024-01", "food", 200, "b1")
    \/ CreateOrUpdateBudget("p1", "u1", "2024-01", "rent", 200, "b2")

SpecDecode == Init /\ [][NextDecode]_vars

(***************************************************************************)
(* Specification of the records of two users                               *)
(***************************************************************************)

\* User ids are any non-empty strings: one of them ends with the other
\* after a separator sign.
IsoUsers == {"u1", "x#u1"}

IsoTxs ==
    {Expense(u, "a", d, c) : u \in IsoUsers, d \in {D1, D2}, c \in {"food", "rent"}}

\* The months and categories of the queries are any non-empty strings.
IsoMonths == {"2024-01", "2024-02", "2024-01#x"}

IsoCategories == {"food", "rent", "food#x"}

NextIso ==
    \/ \E t \in IsoTxs : CreateTransaction("p1", t, "n")
    \/ \E u \in IsoUsers : SeedWrite(RawSeed("2024-01-15", "food"), u, "s")

SpecIso == Init /\ [][NextIso]_vars

(***************************************************************************)
(* Properties of concurrent handlers (Spec)                                *)
(***************************************************************************)

\* the items of a user's partition that carry a transaction id
StoredWithId(st, userID, id) ==
    {i \in st : i.PK = "USER#" \o userID /\ i.id = id}

RaceOver == \A p \in Procs : race.outs[p] \notin {"", "pending"}

\* C1: when two Updates of one record have both read version v and both
\* have attempted their conditional write, exactly one has succeeded, the
\* other has got the conflict error, and the record is at version v+1.
C1_ExactlyOneRacingUpdateWins ==
    RaceOver =>
        /\ \E p \in Procs :
              /\ race.outs[p] = "ok"
              /\ \A q \in Procs \ {p} : race.outs[q] = "conflict"
        /\ race.after # <<>>
        /\ race.after[1].version = race.v + 1

\* C2: GetTransaction answers "not found" only when the user's partition
\* holds no record with that id; a record that Create stored is found.
C2_GetFindsStoredRecord ==
    (last.op = "get" /\ last.out = "notfound")
        => StoredWithId(store, last.user, last.id) = {}

\* C5: a Create whose primary key already holds a record fails and leaves
\* the table as it was; a Create on a free key succeeds and adds exactly its
\* item.  Of two Creates of one key, in either order, only the first
\* succeeds.
C5_CreateOnExistingKeyFails ==
    [][(last' # last /\ last'.op = "create" /\ last'.out # "invalid")
         => IF ItemsAt(store, last'.key[1], last'.key[2]) # {}
            THEN last'.out = "exists" /\ store' = store
            ELSE /\ last'.out = "ok"
                 /\ Cardinality(ItemsAt(store', last'.key[1], last'.key[2])) = 1
                 /\ store' \ ItemsAt(store', last'.key[1], last'.key[2]) = store
      ]_vars

\* a Create has been refused because its key was taken, and the item that
\* took the key is in the table
C5_Witness ==
    /\ last.op = "create"
    /\ last.out = "exists"
    /\ ItemsAt(store, last.key[1], last.key[2]) # {}

\* C6: DeleteTransaction answers "not found" only for an id that has no
\* record in the user's partition; an id that has a record is removed.
C6_DeleteFindsStoredRecord ==
    (last.op = "delete" /\ last.out = "notfound")
        => StoredWithId(store, last.user, last.id) = {}

\* C7: an Update gets the conflict error only when the record it read was
\* replaced or removed between its read and its write.
C7_ConflictOnlyWhenStale ==
    (last.op = "update" /\ last.out = "conflict") => last.stale

(***************************************************************************)
(* Properties of the index keys (SpecKeys)                                 *)
(***************************************************************************)

\* the set of the items of a sequence
Range(seq) == {seq[k] : k \in 1..Len(seq)}

\* how many entries of a page carry the primary key of item i
Occurrences(page, i) ==
    Cardinality({k \in 1..Len(page.items) : SameKey(page.items[k], i)})

\* two strings that differ at most in the case of their letters
EqualFold(a, b) ==
    /\ Len(a) = Len(b)
    /\ \A k \in 1..Len(a) :
         LET x == SubSeq(a, k, k)
             y == SubSeq(b, k, k)
         IN  \/ x = y
             \/ \E j \in 1..Len(Lower) : {x, y} = {Lower[j], Upper[j]}

\* C3: every stored transaction of user U dated inside month M is returned
\* exactly once by GetTransactionsByMonth(U, M) with a limit that covers the
\* table, and by no GetTransactionsByMonth call for another month or user.
C3_MonthQueryExact ==
    \A i \in store : \A u \in KeyUsers : \A m \in KeyMonths :
        Occurrences(GetTransactionsByMonth(store, u, m,
                                           Cardinality(store) + 1, <<>>), i)
          = IF u = i.user_id /\ m = FormatMonth(i.date) THEN 1 ELSE 0

\* an Update has just issued its write, and the table holds a created
\* record whose month differs between its own zone and UTC, next to a
\* batch-loaded record of another user
C3_Witness ==
    /\ last.op = "update"
    /\ last.out = "conflict"
    /\ \E i \in store :
          /\ i.user_id = "u1"
          /\ FormatMonth(i.date) # FormatMonth([i.date EXCEPT !.off = 0])
          /\ Occurrences(GetTransactionsByMonth(store, "u1", "2024-01",
                                                Cardinality(store) + 1, <<>>), i) = 1
    /\ \E j \in store : j.user_id = "u2" /\ j.id = "b"

\* C4: category strings that differ only in letter case get the same result
\* from GetTransactionsByCategory, and the result holds every stored
\* transaction of the user whose category equals the query but for case.
C4_CategoryQueryIgnoresCase ==
    \A u \in KeyUsers : \A c1 \in KeyCategories :
        LET r1 == Range(GetTransactionsByCategory(store, u, c1,
                                                  Cardinality(store) + 1, <<>>).items)
        IN  /\ \A c2 \in KeyCategories :
                 EqualFold(c1, c2) =>
                    r1 = Range(GetTransactionsByCategory(store, u, c2,
                                                         Cardinality(store) + 1, <<>>).items)
            /\ \A i \in store :
                 (i.user_id = u /\ EqualFold(i.category, c1)) => i \in r1

\* two records of one user written with categories that differ in case
\* only are both returned by the query for a third spelling
C4_Witness ==
    \E i \in store : \E j \in store :
        /\ i.user_id = j.user_id
        /\ i.category # j.category
        /\ EqualFold(i.category, j.category)
        /\ HasPrefix(i.SK, "TRANSACTION#")
        /\ HasPrefix(j.SK, "TRANSACTION#")
        /\ {i, j} \subseteq
             Range(GetTransactionsByCategory(store, i.user_id, "FOOD",
                                             Cardinality(store) + 1, <<>>).items)

(***************************************************************************)
(* Properties of the batch load (SpecBatch)                                *)
(***************************************************************************)

\* the BatchWriteItem calls of the batch load that is running or has
\* finished last
BatchLog ==
    IF pc["p1"] = "batch" THEN req["p1"].calls
    ELSE IF last.op = "batch" THEN last.calls
    ELSE <<>>

\* the batch load has returned with the outcome out
BatchEnded(out) == pc["p1"] = "idle" /\ last.op = "batch" /\ last.out = out

\* the requests a call got accepted: the ones sent and not reported back
AcceptedBy(c) == Range(c.sent) \ Range(c.left)

\* the calls of the log made for the chunk at offset i
CallsOfChunk(log, i) == {j \in 1..Len(log) : log[j].i = i}

\* the requests of the first submission of every chunk, in the order of
\* the submissions
RECURSIVE FirstSubmissions(_)
FirstSubmissions(log) ==
    IF log = <<>> THEN <<>>
    ELSE LET n    == Len(log)
             rest == FirstSubmissions(SubSeq(log, 1, n - 1))
         IN  IF n = 1 \/ log[n].i # log[n - 1].i
             THEN rest \o log[n].sent
             ELSE rest

\* C8: a batch load whose unprocessed requests are accepted within the
\* retry bound returns success with every one of its N items in the table,
\* each once and each accepted by exactly one call; every retry submits
\* exactly the requests the previous call reported as unprocessed.
C8_RetrySubmitsUnprocessedOnly ==
    /\ \A j \in 2..Len(BatchLog) :
          BatchLog[j].i = BatchLog[j - 1].i
             => BatchLog[j].sent = BatchLog[j - 1].left
    /\ BatchEnded("ok") =>
          LET items == WriteRequests(last.txs)
          IN  /\ \A k \in 1..Len(items) : items[k] \in store
              /\ Cardinality(store) = Len(last.txs)
              /\ \A x \in store :
                    Cardinality({j \in 1..Len(last.calls) :
                                    x \in AcceptedBy(last.calls[j])}) = 1

\* a load of more than one chunk has succeeded after a call had reported a
\* part of a chunk, but not all of it, as unprocessed
C8_Witness ==
    /\ BatchEnded("ok")
    /\ Len(last.txs) > batchSize
    /\ \E j \in 1..Len(last.calls) :
          /\ last.calls[j].left # <<>>
          /\ Len(last.calls[j].left) < Len(last.calls[j].sent)

\* C9: no chunk is submitted more than maxRetries times; a load fails on a
\* chunk exactly when the maxRetries-th submission of it still leaves
\* requests unprocessed, and then every item of the earlier chunks is in
\* the table, no later chunk has been submitted and none of its items is
\* in the table.
C9_FailsAfterMaxRetries ==
    /\ \A j \in 1..Len(BatchLog) :
          Cardinality(CallsOfChunk(BatchLog, BatchLog[j].i)) <= maxRetries
    /\ pc["p1"] = "batch" =>
          ~ /\ Cardinality(CallsOfChunk(BatchLog, req["p1"].i)) = maxRetries
            /\ BatchLog[Len(BatchLog)].left # <<>>
    /\ BatchEnded("failed") =>
          LET items == WriteRequests(last.txs)
              n     == Len(last.calls)
          IN  /\ Cardinality(CallsOfChunk(last.calls, last.i)) = maxRetries
              /\ last.calls[n].i = last.i
              /\ last.calls[n].left # <<>>
              /\ \A j \in 1..n : last.calls[j].i <= last.i
              /\ \A k \in 1..last.i : items[k] \in store
              /\ \A k \in (last.i + batchSize + 1)..Len(items) :
                    items[k] \notin store

\* a load has failed on a chunk that is not its first one, with a later
\* chunk still to come
C9_Witness ==
    /\ BatchEnded("failed")
    /\ last.i > 0
    /\ Len(last.txs) > last.i + batchSize
    /\ Cardinality(store) >= last.i

\* C10: the chunks are consecutive pieces of the input of at most batchSize
\* items each, in the order of the input, every item in exactly one of
\* them; a chunk is submitted only when the chunk before it is accepted
\* wholly, and the chunks are never revisited.
C10_ChunksPartitionInput ==
    /\ \A j \in 1..Len(BatchLog) : Len(BatchLog[j].sent) <= batchSize
    /\ \A j \in 2..Len(BatchLog) :
          \/ BatchLog[j].i = BatchLog[j - 1].i
          \/ /\ BatchLog[j].i = BatchLog[j - 1].i + batchSize
             /\ BatchLog[j - 1].left = <<>>
    /\ BatchEnded("ok") =>
          LET items == WriteRequests(last.txs)
          IN  /\ FirstSubmissions(last.calls) = items
              /\ \A k \in 1..Len(items) :
                    Cardinality({j \in 1..Len(last.calls) :
                        /\ j = 1 \/ last.calls[j].i # last.calls[j - 1].i
                        /\ items[k] \in Range(last.calls[j].sent)}) = 1

\* a load of batchSize + 1 items has succeeded in two chunks, a full one
\* and one of a single item
C10_Witness ==
    /\ BatchEnded("ok")
    /\ Len(last.txs) = batchSize + 1
    /\ CallsOfChunk(last.calls, 0) # {}
    /\ \E j \in CallsOfChunk(last.calls, batchSize) :
          Len(last.calls[j].sent) = 1

(***************************************************************************)
(* Properties of repeated batch loads (SpecResume)                         *)
(***************************************************************************)

\* the primary keys of a set of items
KeysOf(S) == {<<i.PK, i.SK>> : i \in S}

\* C11: a batch load succeeds also on items whose primary keys are taken:
\* when it returns success every one of its items is in the table as
\* submitted, one item per key; a call all of whose requests are in the
\* table already leaves the table as it is, so a second run on the same
\* items leaves the records of the first.
C11_BatchOverwritesAndResumes ==
    [][ /\ (pc["p1"] = "batch" /\ Range(req["p1"].input) \subseteq store)
              => store' = store
        /\ (pc["p1"] = "batch" /\ pc'["p1"] = "idle" /\ last'.out = "ok")
              => /\ Range(WriteRequests(last'.txs)) \subseteq store'
                 /\ Cardinality(KeysOf(store')) = Cardinality(store')
                 /\ KeysOf(store') = KeysOf(store)
                                       \cup KeysOf(Range(req["p1"].input))
      ]_vars

\* a load has returned success that ran on a table holding all of its keys
\* and more: the stored items are the ones of the last load and, under the
\* other keys, the ones of an earlier load
C11_Witness ==
    /\ BatchEnded("ok")
    /\ last.calls # <<>>
    /\ Cardinality(store) > Len(last.txs)
    /\ Range(WriteRequests(last.txs)) \subseteq store
    /\ \E x \in store : x.amount # last.txs[1].amount

(***************************************************************************)
(* Errors of the batch-write call (SpecBatch)                              *)
(***************************************************************************)

\* C12: an error returned by the BatchWriteItem call itself is retried: a
\* load ends with that error only when the chunk it is working on has been
\* submitted maxRetries times.
C12_CallErrorIsRetried ==
    BatchEnded("error") =>
        Cardinality(CallsOfChunk(last.calls, last.i)) = maxRetries

(***************************************************************************)
(* Properties of the paged queries (SpecPages)                             *)
(***************************************************************************)

\* the stored transactions a list query is asked for: the user's, the
\* user's of a month, the user's of a category (case ignored)
Matching(st, q) ==
    {i \in st :
        /\ i.user_id = q.user
        /\ q.kind = "month" => FormatMonth(i.date) = q.arg
        /\ q.kind = "category" => EqualFold(i.category, q.arg)}

\* following the cursor of q with page limit limit returns every matching
\* item once and ends with an empty cursor
PagesExact(st, q, limit) ==
    LET all == FollowCursor(st, q, limit, <<>>, Cardinality(st) + 1)
    IN  /\ all.ended
        /\ Len(all.items) = Cardinality(Matching(st, q))
        /\ KeysOf(Range(all.items)) = KeysOf(Matching(st, q))

\* C13: for each of the three list queries and every page limit, the
\* pages got by following the cursor hold every matching stored item
\* exactly once, and the last cursor is empty.
C13_PagesReturnEveryItemOnce ==
    \A q \in PageQueries, limit \in 1..MaxLimit : PagesExact(store, q, limit)

\* The month and category queries alone: their pages are exact.
IndexPagesExact ==
    \A q \in {x \in PageQueries : x.kind # "user"}, limit \in 1..MaxLimit :
        PagesExact(store, q, limit)

\* the instant of date a is before the instant of date b
DateBefore(a, b) == a.day < b.day \/ (a.day = b.day /\ a.sec < b.sec)

\* no item of the sequence that has a generated sort key comes after an
\* item with a generated sort key and an earlier date
MostRecentFirst(items) ==
    \A j, k \in 1..Len(items) :
        (/\ j < k
         /\ HasPrefix(items[j].SK, "TRANSACTION#")
         /\ HasPrefix(items[k].SK, "TRANSACTION#"))
            => ~DateBefore(items[j].date, items[k].date)

\* C14: each of the three list queries returns its items most recent
\* first: of two returned items whose sort keys GenerateKeys made, the one
\* with the later date comes first.
C14_MostRecentFirst ==
    \A q \in PageQueries, limit \in 1..MaxLimit :
        MostRecentFirst(FollowCursor(store, q, limit, <<>>,
                                     Cardinality(store) + 1).items)

(***************************************************************************)
(* Properties of the life of a record (SpecLife)                           *)
(***************************************************************************)

\* C15: the record a successful Create stores has version 1, whatever
\* version the request carried, also after a Delete; the record a
\* successful Update stores has the version that was read plus 1.
C15_VersionLifecycle ==
    [][ /\ (pc["p1"] = "idle" /\ last'.op = "create" /\ last'.out = "ok"
              /\ store' # store)
              => \A i \in store' \ store : i.version = 1
        /\ (pc["p1"] = "update" /\ last'.out = "ok")
              => \A i \in store' \ store :
                    i.version = req["p1"].existing.version + 1
      ]_vars

\* C16: an Update whose record has been removed between its read and its
\* write fails and writes nothing, so the removed key stays absent.
C16_NoResurrection ==
    [][ (/\ pc["p1"] = "update"
         /\ pc'["p1"] = "idle"
         /\ ItemsAt(store, req["p1"].existing.PK, req["p1"].existing.SK) = {})
            => /\ last'.out # "ok"
               /\ store' = store
      ]_vars

\* an Update read a record, a Delete then removed it, and the Update has
\* issued its write while another record of the same id, stored by Create
\* or BatchCreate, sits under the key the Update writes to
C16_Witness ==
    /\ last.op = "update"
    /\ last.out = "conflict"
    /\ last.stale
    /\ \A i \in store : (i.user_id = last.user /\ i.id = last.id)
                            => ~HasPrefix(i.SK, "TX#")
    /\ \E i \in store : /\ i.user_id = last.user /\ i.id = last.id
                        /\ "version" \in DOMAIN i

(***************************************************************************)
(* Properties of the stored keys (SpecKeys)                                *)
(***************************************************************************)

\* the items the repository has written: it marshals the version field of
\* its struct into every item, the ingestion tool writes none
RepositoryItems(st) == {i \in st : "version" \in DOMAIN i}

\* the six key attributes of an item are the ones its own fields give
KeysMatchFields(i) ==
    /\ i.PK = "USER#" \o i.user_id
    /\ i.SK = "TRANSACTION#" \o UnixText(i.date) \o "#" \o i.id
    /\ i.GSI1PK = "MONTH#" \o FormatMonth(i.date) \o "#" \o i.user_id
    /\ i.GSI1SK = "TRANSACTION#" \o UnixText(i.date)
    /\ i.GSI2PK = "CATEGORY#" \o ToUpper(i.category) \o "#" \o i.user_id
    /\ i.GSI2SK = "TRANSACTION#" \o UnixText(i.date)

\* C17: every item that Create, Update or BatchCreate has written carries
\* the primary and index keys that its own user id, date, id and category
\* give; none carries keys of earlier field values.
C17_StoredKeysAreCurrent ==
    \A i \in RepositoryItems(store) : KeysMatchFields(i)

\* an Update of a record has just issued its write, and the table holds the
\* record of that id as Create stored it (its category key in upper case)
\* beside records that BatchCreate has stored
C17_Witness ==
    /\ last.op = "update"
    /\ last.out = "conflict"
    /\ \E i \in RepositoryItems(store) :
          /\ i.user_id = last.user /\ i.id = last.id
          /\ i.version = 1
          /\ i.category = "food"
          /\ i.GSI2PK = "CATEGORY#FOOD#u1"
    /\ \E j \in RepositoryItems(store) : j.category = "rent"
    /\ Cardinality(RepositoryItems(store)) >= 3

(***************************************************************************)
(* Properties of the budgets (SpecBudgets)                                 *)
(***************************************************************************)

\* C18: the table holds at most one budget per user, month and category
\* (case ignored); after a budget write GetBudget, asked with any spelling
\* of the category, and GetBudgetsByMonth return the amount just written;
\* a budget write fails only for a negative amount or a text that is no
\* month, never because the budget exists.
C18_BudgetUpsertLastWriteWins ==
    /\ \A a, b \in store :
          (/\ a.user_id = b.user_id
           /\ a.month = b.month
           /\ EqualFold(a.category, b.category)) => a = b
    /\ last.op = "budget" =>
          /\ last.out = "ok" <=> (last.amount >= 0 /\ ValidMonth(last.month))
          /\ last.out = "ok" =>
                /\ \A c \in BudgetCategories :
                      EqualFold(c, last.category) =>
                         /\ GetBudget(store, last.user, last.month, c).err = ""
                         /\ GetBudget(store, last.user, last.month, c)
                               .budget[1].amount = last.amount
                /\ LET all == GetBudgetsByMonth(store, last.user, last.month)
                       hits == {k \in 1..Len(all) :
                                  EqualFold(all[k].category, last.category)}
                   IN  /\ Cardinality(hits) = 1
                       /\ \A k \in hits : all[k].amount = last.amount

\* a budget has been written over the budget of the same category in
\* another spelling, beside a budget of another category in that month
C18_Witness ==
    /\ last.op = "budget"
    /\ last.out = "ok"
    /\ last.replaced
    /\ last.category = "Food"
    /\ last.amount = 200
    /\ Len(GetBudgetsByMonth(store, last.user, last.month)) = 2

\* C19: every record that Create, Update or BatchCreate has written has an
\* amount other than 0, the type income or expense, a category and a
\* description.
C19_StoredRecordsAreValid ==
    \A i \in RepositoryItems(store) :
        /\ i.amount # 0
        /\ i.type \in {TransactionTypeIncome, TransactionTypeExpense}
        /\ i.category # ""
        /\ i.description # ""

\* C20: the create path refuses a transaction whose date is the zero
\* value: whatever the table holds, it returns the validation error and
\* leaves the table as it is.
C20_ZeroDateIsRejected ==
    \A t \in LifeCreates :
        IsZero(t.date) =>
            /\ SvcCreateTransaction(store, t, "n").out = "invalid"
            /\ SvcCreateTransaction(store, t, "n").store = store

(***************************************************************************)
(* Properties of the financial summary (SpecSummary)                       *)
(***************************************************************************)

\* the stored transactions of a user, under whatever key
TransactionsOf(st, userID) ==
    {i \in st : "type" \in DOMAIN i /\ i.user_id = userID}

\* the sum of the values of a function with a finite domain
RECURSIVE SumOver(_)
SumOver(f) ==
    IF DOMAIN f = {} THEN 0
    ELSE LET x == CHOOSE y \in DOMAIN f : TRUE
         IN  f[x] + SumOver([y \in DOMAIN f \ {x} |-> f[y]])

RECURSIVE RatSum(_)
RatSum(s) == IF s = <<>> THEN RatZero ELSE RatAdd(s[1], RatSum(Tail(s)))

PercentagesOf(summary) ==
    [k \in 1..Len(summary.CategoryBreakdown) |->
        summary.CategoryBreakdown[k].Percentage]

\* The percentages add up to 100 when the expense total the summary divides
\* by is positive and are all 0 when that total is 0 or negative.
PercentagesOfComputedTotal ==
    LET S == GetFinancialSummary(store, "u1")
    IN  IF -S.MonthlyExpenses > 0
        THEN RatSum(PercentagesOf(S)) = Rat(100, 1)
        ELSE \A k \in 1..Len(S.CategoryBreakdown) :
                S.CategoryBreakdown[k].Percentage = RatZero

\* C21: the category percentages of GetFinancialSummary add up to 100
\* whenever the total expense it reports (as an absolute value) is greater
\* than 0, and every percentage is 0 when the total expense is 0, whatever
\* the signs of the stored expense amounts.
C21_PercentagesSumTo100 ==
    LET S     == GetFinancialSummary(store, "u1")
        total == Abs(S.MonthlyExpenses)
    IN  /\ total > 0 => RatSum(PercentagesOf(S)) = Rat(100, 1)
        /\ total = 0 => \A k \in 1..Len(S.CategoryBreakdown) :
                           S.CategoryBreakdown[k].Percentage = RatZero

\* C22: GetFinancialSummary reports the sum of the user's income amounts as
\* total income, the non-negative sum of the absolute expense amounts as
\* total expense, income - expense as balance and balance / income * 100
\* as savings rate (0 when the income is 0), and for every category its
\* expense total.
C22_SummaryTotals ==
    LET S       == GetFinancialSummary(store, "u1")
        all     == TransactionsOf(store, "u1")
        income  == SumOver([i \in {j \in all : j.type = TransactionTypeIncome}
                             |-> i.amount])
        expense == SumOver([i \in {j \in all : j.type = TransactionTypeExpense}
                             |-> Abs(i.amount)])
    IN  /\ S.err = ""
        /\ S.MonthlyIncome = income
        /\ S.MonthlyExpenses = expense
        /\ S.TotalBalance = income - expense
        /\ S.SavingsRate = IF income = 0 THEN RatZero
                           ELSE Rat((income - expense) * 100, income)
        /\ \A c \in {i.category : i \in {j \in all :
                                     j.type = TransactionTypeExpense}} :
              \E k \in 1..Len(S.CategoryBreakdown) :
                 /\ S.CategoryBreakdown[k].Category = c
                 /\ S.CategoryBreakdown[k].Amount =
                       SumOver([i \in {j \in all : /\ j.type = TransactionTypeExpense
                                                 /\ j.category = c}
                                 |-> Abs(i.amount)])

(***************************************************************************)
(* Properties of the monthly analytics and the utilization (SpecMonth)     *)
(***************************************************************************)

\* the stored budgets of a user for a month
BudgetsOf(st, userID, month) ==
    {i \in st : /\ "month" \in DOMAIN i
                /\ i.user_id = userID
                /\ i.month = month}

\* the utilization entry the claim states for budget b over the
\* transactions of S
ExpectedUtilization(b, S) ==
    LET spent == SumOver([i \in {j \in S : /\ j.type = TransactionTypeExpense
                                           /\ FormatMonth(j.date) = b.month
                                           /\ j.category = b.category}
                            |-> Abs(i.amount)])
    IN  [Category     |-> b.category,
         BudgetAmount |-> b.amount,
         SpentAmount  |-> spent,
         Remaining    |-> b.amount - spent,
         Percentage   |-> IF b.amount = 0 THEN RatZero
                          ELSE Rat(spent * 100, b.amount)]

\* The utilization is the stated one over the records the by-user query
\* reads (sort keys under TX#).
UtilizationOfReadRecords ==
    LET U == GetBudgetUtilization(store, "u1", "2024-01")
    IN  /\ U.err = ""
        /\ \A b \in BudgetsOf(store, "u1", "2024-01") :
              /\ b.category \in DOMAIN U.utilization
              /\ U.utilization[b.category] =
                    ExpectedUtilization(b,
                       {i \in TransactionsOf(store, "u1") :
                           HasPrefix(i.SK, "TX#")})

\* C23: for every budgeted category of the month GetBudgetUtilization
\* reports as spent the sum of the absolute amounts of the user's expense
\* transactions of that category dated in the month, as remaining the
\* budget minus the spent amount (negative when over budget), and as
\* percentage spent / budget * 100, 0 for a budget of 0.
C23_UtilizationPerBudget ==
    LET U == GetBudgetUtilization(store, "u1", "2024-01")
    IN  /\ U.err = ""
        /\ \A b \in BudgetsOf(store, "u1", "2024-01") :
              /\ b.category \in DOMAIN U.utilization
              /\ U.utilization[b.category] =
                    ExpectedUtilization(b, TransactionsOf(store, "u1"))

\* C29: GetMonthlyAnalytics of the repository and
\* GetFinancialSummaryWithBudgets of the service report, for the same user
\* and month, the same total income, the same total expense as an absolute
\* value, and the same balance.
C29_MonthlyTotalsAgree ==
    LET R == GetMonthlyAnalytics(store, "u1", "2024-01")
        S == GetFinancialSummaryWithBudgets(store, "u1", "2024-01")
    IN  /\ S.err = ""
        /\ R.TotalIncome = S.TotalIncome
        /\ Abs(R.TotalExpense) = Abs(S.TotalExpense)
        /\ R.Balance = S.Balance

\* the page loop with pages of limit items ends and returns every record
\* of S exactly once
LoopCountsOnce(S, limit) ==
    LET all == FollowCursor(store, [kind |-> "user", user |-> "u1",
                                    arg |-> ""],
                            limit, <<>>, Cardinality(store) + 1)
    IN  /\ all.ended
        /\ \A i \in S :
              Cardinality({k \in 1..Len(all.items) :
                              /\ all.items[k].PK = i.PK
                              /\ all.items[k].SK = i.SK}) = 1

\* The loop ends and counts once every record the by-user query reads.
LoopCountsReadRecords ==
    \A limit \in 1..MaxLimit :
        LoopCountsOnce({i \in TransactionsOf(store, "u1") :
                           HasPrefix(i.SK, "TX#")}, limit)

\* C30: the page loop of GetBudgetUtilization ends with the first page
\* that has no cursor, and by then every stored transaction of the user
\* has been returned, and so counted in the spending totals, exactly once.
C30_PageLoopCountsEveryTransaction ==
    \A limit \in 1..MaxLimit :
        LoopCountsOnce(TransactionsOf(store, "u1"), limit)

(***************************************************************************)
(* Properties of the decoding loop (SpecDecode)                            *)
(***************************************************************************)

DecodeQueries ==
    {[kind |-> "user", user |-> "u1", arg |-> ""],
     [kind |-> "month", user |-> "u1", arg |-> "2024-01"],
     [kind |-> "category", user |-> "u1", arg |-> "food"]}

\* the positions of the page at which the item with the keys of t stands
PositionsOf(page, t) ==
    {k \in 1..Len(page.items) :
        page.items[k].PK = t.PK /\ page.items[k].SK = t.SK}

\* the transactions returned for the page are its decodable items, each
\* once and in the order of the page
SkipsUndecodable(page) ==
    LET out == Decoded(page)
    IN  /\ \A k \in 1..Len(page.items) :
              Cardinality({j \in 1..Len(out) :
                              /\ out[j].PK = page.items[k].PK
                              /\ out[j].SK = page.items[k].SK}) =
                 IF Decodes(page.items[k]) THEN 1 ELSE 0
        /\ \A j \in 1..Len(out) :
              /\ PositionsOf(page, out[j]) # {}
              /\ \A k \in PositionsOf(page, out[j]) :
                    out[j] = FromDynamoDBItem(page.items[k])
        /\ \A i, j \in 1..Len(out) :
              i < j => \A a \in PositionsOf(page, out[i]),
                          b \in PositionsOf(page, out[j]) : a < b

\* C24: in the list queries by user, month and category and in the budgets
\* of a month a stored item that does not decode is skipped: the query
\* returns the other items of the page in their order, with the cursor of
\* the page as the table gave it, and following the cursor returns every
\* decodable item of the query.
C24_UndecodableItemIsSkipped ==
    /\ \A q \in DecodeQueries, limit \in 1..MaxLimit :
          /\ SkipsUndecodable(PageOf(store, q, limit, <<>>))
          /\ LET all == FollowCursor(store, q, limit, <<>>,
                                     Cardinality(store) + 1)
                 hit == PageOf(store, q, Cardinality(store) + 1, <<>>).items
             IN  /\ all.ended
                 /\ Len(all.items) =
                       Cardinality({k \in 1..Len(hit) : Decodes(hit[k])})
                 /\ \A k \in 1..Len(hit) :
                       Decodes(hit[k]) =>
                          \E j \in 1..Len(all.items) :
                             all.items[j] = FromDynamoDBItem(hit[k])
    /\ LET budgets == GetBudgetsByMonth(store, "u1", "2024-01")
       IN  /\ Range(budgets) =
                 {b \in BudgetsOf(store, "u1", "2024-01") : Decodes(b)}
           /\ Len(budgets) = Cardinality(Range(budgets))

\* a page of the by-user query with a cursor holds an item that does not
\* decode before one that does, and the budgets of the month hold one item
\* that decodes and one that does not
C24_Witness ==
    /\ \E limit \in 1..MaxLimit :
          LET page == GetTransactionsByUser(store, "u1", limit, <<>>)
          IN  /\ page.last # <<>>
              /\ \E j, k \in 1..Len(page.items) :
                    /\ j < k
                    /\ ~Decodes(page.items[j])
                    /\ Decodes(page.items[k])
              /\ Len(Decoded(page)) < Len(page.items)
    /\ Len(GetBudgetsByMonth(store, "u1", "2024-01")) = 1
    /\ Cardinality(BudgetsOf(store, "u1", "2024-01")) = 2

(***************************************************************************)
(* Properties of GenerateKeys (SpecKeys)                                   *)
(***************************************************************************)

KeyFields == {"PK", "SK", "GSI1PK", "GSI1SK", "GSI2PK", "GSI2SK"}

KeysOfRecord(t) == [f \in KeyFields |-> t[f]]

\* the fields GenerateKeys reads are equal in a and b
SameKeyInputs(a, b) ==
    /\ a.user_id = b.user_id
    /\ a.id = b.id
    /\ a.date = b.date
    /\ a.category = b.category

\* the records of the requests of the specification, and the same records
\* with other values in the fields GenerateKeys does not read
KeyRecords ==
    LET given == KeyTxs \cup UNION {Range(txs) : txs \in KeyBatches}
    IN  given \cup {[t EXCEPT !.amount = 7, !.description = "other",
                              !.version = 3, !.PK = "USER#old",
                              !.SK = "TX#old", !.GSI1PK = "MONTH#old"] :
                       t \in given}

\* C25: GenerateKeys is idempotent and deterministic: applied twice to a
\* record it gives what it gives applied once, on a stored record it
\* changes nothing, and two records with equal user id, id, date and
\* category get equal keys whatever their other fields and earlier keys.
C25_GenerateKeysIdempotent ==
    /\ \A t \in KeyRecords : GenerateKeys(GenerateKeys(t)) = GenerateKeys(t)
    /\ \A a, b \in KeyRecords :
          SameKeyInputs(a, b) =>
             KeysOfRecord(GenerateKeys(a)) = KeysOfRecord(GenerateKeys(b))
    /\ \A i \in RepositoryItems(store) :
          /\ GenerateKeys(i) = i
          /\ \A t \in KeyRecords :
                SameKeyInputs(i, t) =>
                   KeysOfRecord(GenerateKeys(t)) = KeysOfRecord(i)

\* an Update has just regenerated the keys of its record and issued its
\* write, and the table holds a record that Create stored with the four key
\* fields of a request of the specification beside a record that
\* BatchCreate stored
C25_Witness ==
    /\ last.op = "update"
    /\ last.out = "conflict"
    /\ \E i \in RepositoryItems(store), t \in KeyTxs :
          /\ SameKeyInputs(i, t)
          /\ i.user_id = last.user /\ i.id = last.id
    /\ \E i \in RepositoryItems(store) :
          \E t \in UNION {Range(txs) : txs \in KeyBatches} : SameKeyInputs(i, t)

(***************************************************************************)
(* Properties of the records of one transaction id (Spec, SpecLife)        *)
(***************************************************************************)

\* C26: after any sequence of Create, Update, Delete and BatchCreate the
\* partition of a user holds at most one record per transaction id: no id
\* is stored under two sort keys.
C26_OneRecordPerId ==
    \A i, j \in RepositoryItems(store) :
        (i.user_id = j.user_id /\ i.id = j.id) => i.SK = j.SK

\* C27: while a record is stored under a primary key its version never
\* decreases, whichever operation writes it.
C27_VersionNeverDecreases ==
    [][\A i \in RepositoryItems(store), j \in RepositoryItems(store') :
          SameKey(i, j) => j.version >= i.version]_vars

(***************************************************************************)
(* Isolation of the users (SpecIso)                                        *)
(***************************************************************************)

\* every transaction of the page belongs to the user
OnlyOf(page, userID) ==
    \A k \in 1..Len(Decoded(page)) : Decoded(page)[k].user_id = userID

\* C28: for all user ids, months and categories that the queries accept,
\* the list queries by user, by month and by category for a user return
\* no transaction of another user.
C28_QueriesIsolatedPerUser ==
    \A u \in IsoUsers, limit \in {1, analyticsLimit} :
        /\ OnlyOf(GetTransactionsByUser(store, u, limit, <<>>), u)
        /\ \A m \in IsoMonths :
              OnlyOf(GetTransactionsByMonth(store, u, m, limit, <<>>), u)
        /\ \A c \in IsoCategories :
              OnlyOf(GetTransactionsByCategory(store, u, c, limit, <<>>), u)

\* The by-user query alone returns only records of the user.
ByUserIsolated ==
    \A u \in IsoUsers :
        OnlyOf(GetTransactionsByUser(store, u, analyticsLimit, <<>>), u)

====
